---- MODULE Spec2Model ----
(***************************************************************************)
(* Model of dftimewolf/lib/state.py: the DFTimewolfState class.            *)
(*                                                                         *)
(* Spec        one run of a recipe: LoadRecipe, RunPreflights,             *)
(*             SetupModules and RunModules, with one thread per main       *)
(*             module in each of the two threaded phases.                  *)
(* SpecFair    one run of a well-formed recipe under fair scheduling.      *)
(* SpecLoad    LoadRecipe on recipes that repeat names or name unknown     *)
(*             modules, followed by the preflights.                        *)
(* SpecLedger  the error ledger called sequentially: AddError, CleanUp,    *)
(*             CheckErrors and writes to output.                           *)
(* SpecStore   the container store and the streaming registry called       *)
(*             sequentially.                                               *)
(* SpecTasks   StoreContainer and GetContainers called by concurrent       *)
(*             tasks.                                                      *)
(***************************************************************************)
EXTENDS Naturals, Sequences, FiniteSets, TLC

VARIABLES
  recipe,                      \* self.recipe
  module_pool,                 \* self._module_pool: name -> instance
  threading_event_per_module,  \* self._threading_event_per_module: name -> is set
  errors,                      \* self.errors
  global_errors,               \* self.global_errors
  input,                       \* self.input
  output,                      \* self.output
  input_is_output,             \* self.input is self.output: both name one list object
  store,                       \* self.store: CONTAINER_TYPE -> list of containers
  streaming_callbacks,         \* self.streaming_callbacks: type -> list of targets
  store_lock,                  \* self._store_lock: 0 when free, else the task holding it
  mainpc,                      \* position of the calling (main) thread
  pfi,                         \* RunPreflights: index of the current preflight
  pfpc,                        \* RunPreflights: position inside the loop body
  tpc,                         \* threads started in this phase: position of each
  twi,                         \* _RunModuleThread: index into module_definition['wants']
  printed,                     \* records printed by the last CheckErrors
  exit_status,                 \* 0 while the process lives, 1 after sys.exit(1)
  calls,                       \* observation: results of the module calls made so far
  log,                         \* observation: the store and registry calls made, in order
  last                         \* observation: the last API call and what it returned

vars == <<recipe, module_pool, threading_event_per_module, errors, global_errors,
          input, output, input_is_output, store, streaming_callbacks, store_lock, mainpc, pfi, pfpc, tpc, twi,
          printed, exit_status, calls, log, last>>

runvars == <<recipe, module_pool, threading_event_per_module, mainpc, pfi, pfpc,
             tpc, twi, calls>>
ledgervars == <<errors, global_errors, input, output, input_is_output>>
storevars == <<store, streaming_callbacks, store_lock>>

-----------------------------------------------------------------------------
(* Bounds of the model.                                                    *)

MaxLedger == 3       \* error records in the two ledgers together
MaxOutput == 2       \* items in output
MaxLog == 3          \* store and registry calls
MaxTaskCalls == 3    \* store calls made by the concurrent tasks together
StoreTasks == 2      \* concurrent tasks calling the store
MaxDeclared == 2     \* names in each list of a recipe given to LoadRecipe alone

-----------------------------------------------------------------------------
(* Small helpers on sequences and dictionaries.                            *)

Range(s) == {s[k] : k \in 1..Len(s)}

\* d[k] = v on a dict modelled as a function over its keys
DictSet(d, k, v) == [x \in (DOMAIN d) \cup {k} |-> IF x = k THEN v ELSE d[x]]

-----------------------------------------------------------------------------
(* The error ledger: AddError, CleanUp, CheckErrors.                       *)

ErrorRecord(message, critical) == [message |-> message, critical |-> critical]

\* self.errors.append((error, critical))
AddError(errs, error, critical) == Append(errs, ErrorRecord(error, critical))

\* CleanUp, statement by statement: a thread can be preempted between them.
\* self.global_errors.extend(self.errors)
CleanUpExtendGlobal(glob, errs) == glob \o errs
\* a CleanUp that leaves the local list as it is
CleanUpClearErrors_Keep(errs) == errs

\* self.errors = []
CleanUpClearErrors(errs) == <<>>
\* self.input = self.output
CleanUpMoveOutput(inp, out) == out
\* self.output = []
CleanUpClearOutput(out) == <<>>

\* state.output.append(item), seen through self.input: the same list when
\* self.input is self.output
InputAfterAppend(inp, out, same, item) == IF same THEN Append(out, item) ELSE inp

\* CleanUp called with no other thread running: the four statements in order.
CleanUp(st) ==
  LET g == CleanUpExtendGlobal(st.global_errors, st.errors)
      e == CleanUpClearErrors(st.errors)
      i == CleanUpMoveOutput(st.input, st.output)
      o == CleanUpClearOutput(st.output)
  IN [errors |-> e, global_errors |-> g, input |-> i, output |-> o]

\* a print loop that prints every record and never exits
PrintLoop_NoExit(error_objects, out) ==
  [printed |-> out \o error_objects, exit |-> FALSE]

\* a print loop that prints every record before it exits
PrintLoop_PrintAll(error_objects, out) ==
  [printed |-> out \o error_objects,
   exit |-> \E k \in 1..Len(error_objects) : error_objects[k].critical]

\* The print loop of CheckErrors: prints each record, and stops at sys.exit(1)
\* on the first critical one.
RECURSIVE PrintLoop(_, _)
PrintLoop(error_objects, out) ==
  IF error_objects = <<>>
  THEN [printed |-> out, exit |-> FALSE]
  ELSE LET rec == Head(error_objects)
       IN IF rec.critical
          THEN [printed |-> Append(out, rec), exit |-> TRUE]
          ELSE PrintLoop(Tail(error_objects), Append(out, rec))

CheckErrors(errs, glob, is_global) ==
  LET error_objects == IF is_global THEN glob ELSE errs
  IN PrintLoop(error_objects, <<>>)

-----------------------------------------------------------------------------
(* The container store and the streaming registry.                         *)

ContainerClasses == {"Report", "File"}

\* the CONTAINER_TYPE attribute of a container class
CONTAINER_TYPE(cls) == IF cls = "Report" THEN "report" ELSE "file"

\* container objects: instances of the container classes
Containers == [cls : ContainerClasses, id : {"x", "y"}]

\* callback targets
Targets == {"f", "g"}

\* dict.get(key, [])
DictGet(d, k) == IF k \in DOMAIN d THEN d[k] ELSE <<>>

\* self.store.setdefault(container.CONTAINER_TYPE, []).append(container)
StoreContainer(st, container) ==
  LET key == CONTAINER_TYPE(container.cls)
      withkey == IF key \in DOMAIN st THEN st ELSE DictSet(st, key, <<>>)
  IN DictSet(withkey, key, Append(withkey[key], container))

\* a GetContainers that uses setdefault, and so creates the entry
GetContainers_SetDefault(st, container_class) ==
  LET key == CONTAINER_TYPE(container_class)
  IN [result |-> DictGet(st, key),
      store |-> IF key \in DOMAIN st THEN st ELSE DictSet(st, key, <<>>)]

\* return self.store.get(container_class.CONTAINER_TYPE, []): the list returned
\* and the store as the call leaves it
GetContainers(st, container_class) ==
  [result |-> DictGet(st, CONTAINER_TYPE(container_class)), store |-> st]

\* a registration that drops a target the type already has
RegisterStreamingCallback_Dedup(cbs, target, container_type) ==
  IF container_type \in DOMAIN cbs /\ target \in Range(cbs[container_type])
  THEN cbs
  ELSE DictSet(cbs, container_type, Append(DictGet(cbs, container_type), target))

\* if container_type not in self.streaming_callbacks: ... = []; then append
RegisterStreamingCallback(cbs, target, container_type) ==
  LET withkey == IF container_type \notin DOMAIN cbs
                 THEN DictSet(cbs, container_type, <<>>) ELSE cbs
  IN DictSet(withkey, container_type, Append(withkey[container_type], target))

\* for callback in self.streaming_callbacks.get(type(container), []):
\*   callback(container)
\* the calls made, in order: each a target with the container it was given
RECURSIVE InvokeAll(_, _, _)
InvokeAll(callbacks, container, made) ==
  IF callbacks = <<>> THEN made
  ELSE InvokeAll(Tail(callbacks), container,
                 Append(made, [target |-> Head(callbacks), container |-> container]))

StreamContainer(cbs, container) ==
  InvokeAll(DictGet(cbs, container.cls), container, <<>>)

-----------------------------------------------------------------------------
(* Recipes, and the module pool.                                           *)


\* the names modules_manager.ModulesManager.GetModuleByName resolves
Registry == {"A", "B", "C", "P", "Q"}

ModuleDefinition(name, wants) == [name |-> name, wants |-> wants]

Def(name, wants) == ModuleDefinition(name, wants)

\* main modules without preflights: every shape of the wants graph on one
\* and two modules that differs in what a thread waits for, and on three
\* modules a chain, a join and a cycle with a dependent and a bystander.
\* "ghost" is a name no recipe declares.
PipelineRecipes ==
  {[modules |-> m, preflights |-> <<>>] : m \in
    { <<Def("A", <<>>)>>,
      <<Def("A", <<"ghost">>)>>,
      <<Def("A", <<"A">>)>>,
      <<Def("A", <<"ghost", "A">>)>>,
      <<Def("A", <<>>), Def("B", <<>>)>>,
      <<Def("A", <<>>), Def("B", <<"A">>)>>,
      <<Def("A", <<"B">>), Def("B", <<>>)>>,
      <<Def("A", <<"B">>), Def("B", <<"A">>)>>,
      <<Def("A", <<"ghost">>), Def("B", <<"A">>)>>,
      <<Def("A", <<>>), Def("B", <<"A", "ghost">>)>>,
      <<Def("A", <<"A", "ghost">>), Def("B", <<>>)>>,
      <<Def("A", <<>>), Def("B", <<"A">>), Def("C", <<"B">>)>>,
      <<Def("A", <<>>), Def("B", <<>>), Def("C", <<"A", "B">>)>>,
      <<Def("A", <<"A">>), Def("B", <<"A">>), Def("C", <<>>)>>,
      <<Def("A", <<"A">>), Def("B", <<"ghost">>), Def("C", <<"B">>)>>,
      <<Def("A", <<"ghost", "A">>), Def("B", <<"ghost">>), Def("C", <<"B">>)>> }}

\* one main module after one or two preflights
PreflightRecipes ==
  {[modules |-> <<Def("A", <<>>)>>, preflights |-> p] : p \in
    { <<[name |-> "P"]>>, <<[name |-> "P"], [name |-> "Q"]>> }}

\* recipes that name a module the registry does not know
UnknownRecipes ==
  {[modules |-> <<Def("A", <<>>), Def("X", <<>>)>>, preflights |-> <<>>],
   [modules |-> <<Def("A", <<>>)>>,
    preflights |-> <<[name |-> "P"], [name |-> "X"]>>]}

Recipes == PipelineRecipes \cup PreflightRecipes \cup UnknownRecipes

\* the names of module_definitions + preflight_definitions, in order
CombinedNames(r) ==
  [k \in 1..Len(r.modules) |-> r.modules[k].name]
    \o [k \in 1..Len(r.preflights) |-> r.preflights[k].name]

\* a loop that keeps the instance a name already has
RECURSIVE LoadLoop_KeepFirst(_, _, _)
LoadLoop_KeepFirst(names, k, pool) ==
  IF k > Len(names) THEN [pool |-> pool, raised |-> FALSE]
  ELSE IF names[k] \notin Registry THEN [pool |-> pool, raised |-> TRUE]
  ELSE LoadLoop_KeepFirst(names, k + 1,
         IF names[k] \in DOMAIN pool THEN pool ELSE DictSet(pool, names[k], k))

\* the loop of LoadRecipe from position k: the pool, and whether it raised
\* RecipeParseError. An instance is identified by the position that made it.
RECURSIVE LoadLoop(_, _, _)
LoadLoop(names, k, pool) ==
  IF k > Len(names) THEN [pool |-> pool, raised |-> FALSE]
  ELSE IF names[k] \notin Registry THEN [pool |-> pool, raised |-> TRUE]
  ELSE LoadLoop(names, k + 1, DictSet(pool, names[k], k))

-----------------------------------------------------------------------------
(* One run of a recipe.                                                    *)

NoCall == [op |-> "none"]

\* DFTimewolfState.__init__, and the observation variables at their start
Constructed ==
  /\ recipe = [modules |-> <<>>, preflights |-> <<>>]
  /\ module_pool = <<>>
  /\ threading_event_per_module = <<>>
  /\ errors = <<>>
  /\ global_errors = <<>>
  /\ input = <<>>
  /\ output = <<>>
  /\ input_is_output = FALSE
  /\ store = <<>>
  /\ streaming_callbacks = <<>>
  /\ store_lock = 0
  /\ pfi = 1
  /\ pfpc = "SetUp"
  /\ tpc = <<>>
  /\ twi = <<>>
  /\ printed = <<>>
  /\ exit_status = 0
  /\ calls = {}
  /\ log = <<>>
  /\ last = NoCall

Init == Constructed /\ mainpc = "init"

NModules == Len(recipe.modules)
ModuleName(i) == recipe.modules[i].name
Wants(i) == recipe.modules[i].wants
Threads == 1..Len(tpc)

\* where the caller of the class is once a method has returned: it calls
\* LoadRecipe, RunPreflights, SetupModules and RunModules, in this order
CallerAfter(method) ==
  CASE method = "LoadRecipe" -> "preflights"
    [] method = "RunPreflights" -> "setup"
    [] method = "SetupModules" -> "run"
    [] method = "RunModules" -> "finished"

Call(name, op, outcome) == [module |-> name, op |-> op, outcome |-> outcome]

\* LoadRecipe(recipe)
LoadRecipe(r) ==
  /\ mainpc = "init"
  /\ LET res == LoadLoop(CombinedNames(r), 1, module_pool)
     IN /\ recipe' = r
        /\ module_pool' = res.pool
        /\ mainpc' = IF res.raised THEN "raised" ELSE CallerAfter("LoadRecipe")
  /\ UNCHANGED <<threading_event_per_module, pfi, pfpc, tpc, twi, calls>>
  /\ UNCHANGED <<ledgervars, storevars, printed, exit_status, log, last>>

\* what a preflight's SetUp or Process can do: return, report an error
\* through AddError and return, or raise
PreflightOutcomes == {"ok", "noncritical", "critical", "raise"}

PreflightErrors(name, op, outcome) ==
  IF outcome = "noncritical" THEN AddError(errors, <<name, op>>, FALSE)
  ELSE IF outcome = "critical" THEN AddError(errors, <<name, op>>, TRUE)
  ELSE errors

PreflightSetUp_RaiseContinues(outcome) ==
  /\ mainpc = "preflights" /\ pfi <= Len(recipe.preflights) /\ pfpc = "SetUp"
  /\ LET name == recipe.preflights[pfi].name
     IN /\ errors' = PreflightErrors(name, "SetUp", outcome)
        /\ calls' = calls \cup {Call(name, "SetUp", outcome)}
  /\ pfpc' = "Process"
  /\ UNCHANGED <<recipe, module_pool, threading_event_per_module, mainpc, pfi, tpc, twi>>
  /\ UNCHANGED <<global_errors, input, output, input_is_output, storevars, printed, exit_status, log, last>>

\* RunPreflights: preflight.SetUp(**new_args)
PreflightSetUp(outcome) ==
  /\ mainpc = "preflights" /\ pfi <= Len(recipe.preflights) /\ pfpc = "SetUp"
  /\ LET name == recipe.preflights[pfi].name
     IN /\ errors' = PreflightErrors(name, "SetUp", outcome)
        /\ calls' = calls \cup {Call(name, "SetUp", outcome)}
  /\ pfpc' = IF outcome = "raise" THEN "finally_raised" ELSE "Process"
  /\ UNCHANGED <<recipe, module_pool, threading_event_per_module, mainpc, pfi, tpc, twi>>
  /\ UNCHANGED <<global_errors, input, output, input_is_output, storevars, printed, exit_status, log, last>>

\* RunPreflights: preflight.Process()
PreflightProcess(outcome) ==
  /\ mainpc = "preflights" /\ pfi <= Len(recipe.preflights) /\ pfpc = "Process"
  /\ LET name == recipe.preflights[pfi].name
     IN /\ errors' = PreflightErrors(name, "Process", outcome)
        /\ calls' = calls \cup {Call(name, "Process", outcome)}
  /\ pfpc' = IF outcome = "raise" THEN "finally_raised" ELSE "finally"
  /\ UNCHANGED <<recipe, module_pool, threading_event_per_module, mainpc, pfi, tpc, twi>>
  /\ UNCHANGED <<global_errors, input, output, input_is_output, storevars, printed, exit_status, log, last>>

\* RunPreflights: finally: self.CheckErrors(is_global=True); then the next
\* preflight, or the exception of SetUp or Process leaves RunPreflights
PreflightCheck ==
  /\ mainpc = "preflights" /\ pfi <= Len(recipe.preflights)
  /\ pfpc \in {"finally", "finally_raised"}
  /\ LET res == CheckErrors(errors, global_errors, TRUE)
     IN /\ printed' = res.printed
        /\ exit_status' = IF res.exit THEN 1 ELSE exit_status
        /\ mainpc' = IF res.exit THEN "exited"
                     ELSE IF pfpc = "finally_raised" THEN "raised"
                     ELSE mainpc
        /\ pfi' = IF res.exit \/ pfpc = "finally_raised" THEN pfi ELSE pfi + 1
        /\ pfpc' = IF res.exit \/ pfpc = "finally_raised" THEN pfpc ELSE "SetUp"
  /\ UNCHANGED <<recipe, module_pool, threading_event_per_module, tpc, twi, calls>>
  /\ UNCHANGED <<ledgervars, storevars, log, last>>

\* RunPreflights returns after the last preflight
PreflightsReturn ==
  /\ mainpc = "preflights" /\ pfi > Len(recipe.preflights)
  /\ mainpc' = CallerAfter("RunPreflights")
  /\ UNCHANGED <<recipe, module_pool, threading_event_per_module, pfi, pfpc, tpc, twi, calls>>
  /\ UNCHANGED <<ledgervars, storevars, printed, exit_status, log, last>>

\* _InvokeModulesInThreads: thread.start() for the next module definition.
\* A setup thread starts at the call of SetUp, a processing thread at the
\* loop over its wants.
StartThread ==
  /\ mainpc \in {"setup", "run"} /\ Len(tpc) < NModules
  /\ tpc' = Append(tpc, IF mainpc = "setup" THEN "SetUp" ELSE "wait")
  /\ twi' = Append(twi, 1)
  /\ UNCHANGED <<recipe, module_pool, threading_event_per_module, mainpc, pfi, pfpc, calls>>
  /\ UNCHANGED <<ledgervars, storevars, printed, exit_status, log, last>>

\* a thread has ended: its callback returned ("done"), or an exception left
\* it: KeyError of the event lookup in the wait loop ("crashed") or at set()
\* ("crashed_set"), or an exception of SetUp or Process that the except
\* clauses do not catch ("escaped")
Ended(i) == tpc[i] \in {"done", "crashed", "crashed_set", "escaped"}

AllJoined_AllStarted == Len(tpc) = NModules

\* thread.join() returned for every thread started
AllJoined == Len(tpc) = NModules /\ \A i \in Threads : Ended(i)

\* _InvokeModulesInThreads: every thread joined, then
\* self.CheckErrors(is_global=True)
JoinAndCheck ==
  /\ mainpc \in {"setup", "run"}
  /\ AllJoined
  /\ LET res == CheckErrors(errors, global_errors, TRUE)
     IN /\ printed' = res.printed
        /\ exit_status' = IF res.exit THEN 1 ELSE exit_status
        /\ mainpc' = IF res.exit THEN "exited"
                     ELSE IF mainpc = "setup" THEN CallerAfter("SetupModules")
                     ELSE CallerAfter("RunModules")
        /\ tpc' = IF res.exit THEN tpc ELSE <<>>
        /\ twi' = IF res.exit THEN twi ELSE <<>>
  /\ UNCHANGED <<recipe, module_pool, threading_event_per_module, pfi, pfpc, calls>>
  /\ UNCHANGED <<ledgervars, storevars, log, last>>

\* what SetUp can do: return, raise an exception that is an Exception
\* ("raise"), or raise one that is not, such as SystemExit ("base")
SetupOutcomes == {"ok", "raise", "base"}

\* _SetupModuleThread: module.SetUp(**new_args), and the except clause:
\* "except Exception" does not catch the outcome "base", and the thread ends

SetupCall(i, outcome) ==
  /\ mainpc = "setup" /\ i \in Threads /\ tpc[i] = "SetUp"
  /\ errors' = IF outcome = "raise"
               THEN AddError(errors, <<ModuleName(i), "SetUp">>, TRUE)
               ELSE errors
  /\ calls' = calls \cup {Call(ModuleName(i), "SetUp", outcome)}
  /\ tpc' = [tpc EXCEPT ![i] = IF outcome = "base" THEN "escaped" ELSE "event"]
  /\ UNCHANGED <<recipe, module_pool, threading_event_per_module, mainpc, pfi, pfpc, twi>>
  /\ UNCHANGED <<global_errors, input, output, input_is_output, storevars, printed, exit_status, log, last>>

\* _SetupModuleThread:
\*   self._threading_event_per_module[module_name] = threading.Event()
SetupCreateEvent(i) ==
  /\ mainpc = "setup" /\ i \in Threads /\ tpc[i] = "event"
  /\ threading_event_per_module' =
       DictSet(threading_event_per_module, ModuleName(i), FALSE)
  /\ tpc' = [tpc EXCEPT ![i] = "cleanup_extend"]
  /\ UNCHANGED <<recipe, module_pool, mainpc, pfi, pfpc, twi, calls>>
  /\ UNCHANGED <<ledgervars, storevars, printed, exit_status, log, last>>

\* a wait that returns whether or not the event is set
EventIsSet_NoWait(events, dependency) == TRUE

\* threading.Event.wait() returns
EventIsSet(events, dependency) == events[dependency]

\* a wait loop that blocks on a name that has no event instead of raising
RunWait_BlockOnMissing(i) ==
  /\ mainpc = "run" /\ i \in Threads /\ tpc[i] = "wait"
  /\ twi[i] <= Len(Wants(i))
  /\ Wants(i)[twi[i]] \in DOMAIN threading_event_per_module
  /\ threading_event_per_module[Wants(i)[twi[i]]]
  /\ twi' = [twi EXCEPT ![i] = twi[i] + 1]
  /\ tpc' = tpc
  /\ UNCHANGED <<recipe, module_pool, threading_event_per_module, mainpc, pfi, pfpc, calls>>
  /\ UNCHANGED <<ledgervars, storevars, printed, exit_status, log, last>>

\* _RunModuleThread: one turn of
\*   for dependency in module_definition['wants']:
\*     self._threading_event_per_module[dependency].wait()
\* The lookup raises KeyError for a name with no event, and nothing catches
\* it: the thread ends there.
RunWait(i) ==
  /\ mainpc = "run" /\ i \in Threads /\ tpc[i] = "wait"
  /\ twi[i] <= Len(Wants(i))
  /\ LET dependency == Wants(i)[twi[i]]
     IN IF dependency \notin DOMAIN threading_event_per_module
        THEN /\ tpc' = [tpc EXCEPT ![i] = "crashed"]
             /\ twi' = twi
        ELSE /\ EventIsSet(threading_event_per_module, dependency)
             /\ twi' = [twi EXCEPT ![i] = twi[i] + 1]
             /\ tpc' = tpc
  /\ UNCHANGED <<recipe, module_pool, threading_event_per_module, mainpc, pfi, pfpc, calls>>
  /\ UNCHANGED <<ledgervars, storevars, printed, exit_status, log, last>>

RunProcessBegin_OneAtATime(i) ==
  /\ mainpc = "run" /\ i \in Threads /\ tpc[i] = "wait"
  /\ twi[i] > Len(Wants(i))
  /\ \A j \in Threads : tpc[j] # "Process"
  /\ tpc' = [tpc EXCEPT ![i] = "Process"]
  /\ UNCHANGED <<recipe, module_pool, threading_event_per_module, mainpc, pfi, pfpc, twi, calls>>
  /\ UNCHANGED <<ledgervars, storevars, printed, exit_status, log, last>>

\* _RunModuleThread: the loop is over, module.Process() is called
RunProcessBegin(i) ==
  /\ mainpc = "run" /\ i \in Threads /\ tpc[i] = "wait"
  /\ twi[i] > Len(Wants(i))
  /\ tpc' = [tpc EXCEPT ![i] = "Process"]
  /\ UNCHANGED <<recipe, module_pool, threading_event_per_module, mainpc, pfi, pfpc, twi, calls>>
  /\ UNCHANGED <<ledgervars, storevars, printed, exit_status, log, last>>

\* what Process can do: return (having put its result in output), raise
\* DFTimewolfError ("domain"), raise another exception that is an Exception
\* ("other"), or raise one that is not, such as SystemExit ("base")
ProcessOutcomes == {"ok", "domain", "other", "base"}

\* _RunModuleThread: module.Process() ends, and the except clauses: neither
\* catches the outcome "base", and the thread ends
RunProcessEnd(i, outcome) ==
  /\ mainpc = "run" /\ i \in Threads /\ tpc[i] = "Process"
  /\ errors' = IF outcome \in {"ok", "base"} THEN errors
               ELSE AddError(errors, <<ModuleName(i), outcome>>, TRUE)
  /\ output' = IF outcome = "ok" THEN Append(output, ModuleName(i)) ELSE output
  /\ input' = IF outcome = "ok"
              THEN InputAfterAppend(input, output, input_is_output, ModuleName(i))
              ELSE input
  /\ calls' = calls \cup {Call(ModuleName(i), "Process", outcome)}
  /\ tpc' = [tpc EXCEPT ![i] = IF outcome = "base" THEN "escaped" ELSE "completed"]
  /\ UNCHANGED <<recipe, module_pool, threading_event_per_module, mainpc, pfi, pfpc, twi>>
  /\ UNCHANGED <<global_errors, input_is_output, storevars, printed, exit_status, log, last>>

RunSetEvent_NoSet(i) ==
  /\ mainpc = "run" /\ i \in Threads /\ tpc[i] = "completed"
  /\ tpc' = [tpc EXCEPT ![i] = "cleanup_extend"]
  /\ UNCHANGED <<recipe, module_pool, threading_event_per_module, mainpc, pfi, pfpc, twi, calls>>
  /\ UNCHANGED <<ledgervars, storevars, printed, exit_status, log, last>>

\* _RunModuleThread: self._threading_event_per_module[module_name].set()
\* The lookup raises KeyError when the module has no event (its setup
\* thread ended before creating it), and the thread ends there.
RunSetEvent(i) ==
  /\ mainpc = "run" /\ i \in Threads /\ tpc[i] = "completed"
  /\ IF ModuleName(i) \in DOMAIN threading_event_per_module
     THEN /\ threading_event_per_module' =
               [threading_event_per_module EXCEPT ![ModuleName(i)] = TRUE]
          /\ tpc' = [tpc EXCEPT ![i] = "cleanup_extend"]
     ELSE /\ threading_event_per_module' = threading_event_per_module
          /\ tpc' = [tpc EXCEPT ![i] = "crashed_set"]
  /\ UNCHANGED <<recipe, module_pool, mainpc, pfi, pfpc, twi, calls>>
  /\ UNCHANGED <<ledgervars, storevars, printed, exit_status, log, last>>

\* self.CleanUp() at the end of both thread callbacks, one statement a step
ThreadCleanUpExtend(i) ==
  /\ mainpc \in {"setup", "run"} /\ i \in Threads /\ tpc[i] = "cleanup_extend"
  /\ global_errors' = CleanUpExtendGlobal(global_errors, errors)
  /\ tpc' = [tpc EXCEPT ![i] = "cleanup_clear"]
  /\ UNCHANGED <<recipe, module_pool, threading_event_per_module, mainpc, pfi, pfpc, twi, calls>>
  /\ UNCHANGED <<errors, input, output, input_is_output, storevars, printed, exit_status, log, last>>

ThreadCleanUpClear(i) ==
  /\ mainpc \in {"setup", "run"} /\ i \in Threads /\ tpc[i] = "cleanup_clear"
  /\ errors' = CleanUpClearErrors(errors)
  /\ tpc' = [tpc EXCEPT ![i] = "cleanup_input"]
  /\ UNCHANGED <<recipe, module_pool, threading_event_per_module, mainpc, pfi, pfpc, twi, calls>>
  /\ UNCHANGED <<global_errors, input, output, input_is_output, storevars, printed, exit_status, log, last>>

\* self.input = self.output: from here on input is the list object of output
ThreadCleanUpInput(i) ==
  /\ mainpc \in {"setup", "run"} /\ i \in Threads /\ tpc[i] = "cleanup_input"
  /\ input' = CleanUpMoveOutput(input, output)
  /\ input_is_output' = TRUE
  /\ tpc' = [tpc EXCEPT ![i] = "cleanup_output"]
  /\ UNCHANGED <<recipe, module_pool, threading_event_per_module, mainpc, pfi, pfpc, twi, calls>>
  /\ UNCHANGED <<errors, global_errors, output, storevars, printed, exit_status, log, last>>

\* self.output = []: output is a new list object, input keeps the old one
ThreadCleanUpOutput(i) ==
  /\ mainpc \in {"setup", "run"} /\ i \in Threads /\ tpc[i] = "cleanup_output"
  /\ output' = CleanUpClearOutput(output)
  /\ input_is_output' = FALSE
  /\ tpc' = [tpc EXCEPT ![i] = "done"]
  /\ UNCHANGED <<recipe, module_pool, threading_event_per_module, mainpc, pfi, pfpc, twi, calls>>
  /\ UNCHANGED <<errors, global_errors, input, storevars, printed, exit_status, log, last>>

Next ==
  \/ \E r \in Recipes : LoadRecipe(r)
  \/ \E o \in PreflightOutcomes : PreflightSetUp(o)
  \/ \E o \in PreflightOutcomes : PreflightProcess(o)
  \/ PreflightCheck
  \/ PreflightsReturn
  \/ StartThread
  \/ JoinAndCheck
  \/ \E i \in Threads, o \in SetupOutcomes : SetupCall(i, o)
  \/ \E i \in Threads : SetupCreateEvent(i)
  \/ \E i \in Threads : RunWait(i)
  \/ \E i \in Threads : RunProcessBegin(i)
  \/ \E i \in Threads, o \in ProcessOutcomes : RunProcessEnd(i, o)
  \/ \E i \in Threads : RunSetEvent(i)
  \/ \E i \in Threads : ThreadCleanUpExtend(i)
  \/ \E i \in Threads : ThreadCleanUpClear(i)
  \/ \E i \in Threads : ThreadCleanUpInput(i)
  \/ \E i \in Threads : ThreadCleanUpOutput(i)

Spec == Init /\ [][Next]_vars

-----------------------------------------------------------------------------
(* Properties of a run (Spec).                                             *)

MainNames == {recipe.modules[k].name : k \in 1..NModules}

WantsOfName(name) ==
  UNION {Range(recipe.modules[k].wants) :
           k \in {j \in 1..NModules : recipe.modules[j].name = name}}

RECURSIVE WantsClosure(_, _)
WantsClosure(S, n) ==
  IF n = 0 THEN S ELSE WantsClosure(S \cup UNION {WantsOfName(x) : x \in S}, n - 1)

\* the modules i wants, directly or through other modules
TransitiveWants(i) == WantsClosure(Range(Wants(i)), NModules)

\* the wants graph is acyclic and names only declared main modules
WellFormed ==
  /\ \A k \in 1..NModules : Range(Wants(k)) \subseteq MainNames
  /\ \A k \in 1..NModules : ModuleName(k) \notin TransitiveWants(k)

\* in the processing phase, thread i has called Process / Process has ended
ProcessStarted(i) ==
  /\ mainpc = "run" /\ i \in Threads
  /\ tpc[i] \in {"Process", "completed", "cleanup_extend", "cleanup_clear",
                 "cleanup_input", "cleanup_output", "done", "escaped", "crashed_set"}

ProcessFinished(i) ==
  /\ mainpc = "run" /\ i \in Threads
  /\ tpc[i] \in {"completed", "cleanup_extend", "cleanup_clear",
                 "cleanup_input", "cleanup_output", "done", "escaped", "crashed_set"}

FailedProcessCalls ==
  {c \in calls : c.op = "Process" /\ c.outcome \in {"domain", "other"}}

FailedSetupCalls ==
  {c \in calls : c.op = "SetUp" /\ c.outcome = "raise" /\ c.module \in MainNames}

\* the calls that raised an exception the except clauses do not catch
EscapedCalls == {c \in calls : c.outcome = "base"}

\* C1: in the processing phase of a recipe whose wants graph is acyclic and
\* names only declared main modules, whenever a module's Process has begun,
\* the Process call of every module it wants, directly or transitively, has
\* already ended and that module's signal is set.
C1_WantsFinishBeforeProcess ==
  WellFormed =>
    \A i \in Threads :
      ProcessStarted(i) =>
        \A n \in TransitiveWants(i) :
          /\ \E j \in Threads : ModuleName(j) = n /\ ProcessFinished(j)
          /\ threading_event_per_module[n]

\* a module with a transitive dependency is inside Process, after a module
\* it depends on raised in Process
C1_Witness ==
  /\ WellFormed
  /\ \E i \in Threads :
       /\ mainpc = "run" /\ tpc[i] = "Process"
       /\ TransitiveWants(i) # Range(Wants(i))
       /\ \E c \in FailedProcessCalls : c.module \in TransitiveWants(i)

\* C2: a Process that raises never escapes its task: the task does not end
\* by an exception, its signal gets set, and a run in which some Process
\* raised never ends normally: after the processing phase has joined, the
\* check exits with status 1.
C2_ProcessFailureAborts ==
  \A c \in FailedProcessCalls :
    FailedSetupCalls = {} =>
    /\ \A i \in Threads :
         (mainpc = "run" /\ ModuleName(i) = c.module) => tpc[i] # "crashed"
    /\ mainpc # "finished"
    /\ (mainpc = "exited" => exit_status = 1)

\* C3: when the SetUp of a main module raised, the setup phase ends in an
\* exit with status 1: the processing phase is never entered and no Process
\* is invoked.
C3_SetupFailureAborts ==
  FailedSetupCalls # {} =>
    /\ mainpc \notin {"run", "finished"}
    /\ \A c \in calls : c.op = "Process" => c.module \notin MainNames
    /\ (mainpc = "exited" => exit_status = 1)

\* C4: when a preflight reported a critical error through AddError, no later
\* preflight's SetUp is called, and the main phases are not entered.
C4_PreflightCriticalAborts ==
  \A a, b \in 1..Len(recipe.preflights) :
    (/\ a < b
     /\ \E c \in calls : /\ c.module = recipe.preflights[a].name
                          /\ c.outcome = "critical")
    => ~ \E c \in calls : /\ c.module = recipe.preflights[b].name
                           /\ c.op = "SetUp"

\* the record AddError was given in call c, for the calls that reported one
ReportingCalls ==
  {c \in calls :
     \/ c.outcome \in {"critical", "noncritical", "domain", "other"}
     \/ (c.op = "SetUp" /\ c.outcome = "raise" /\ c.module \in MainNames)}

RecordOfCall(c) ==
  IF c.outcome \in {"critical", "noncritical"}
  THEN ErrorRecord(<<c.module, c.op>>, c.outcome = "critical")
  ELSE IF c.op = "SetUp" THEN ErrorRecord(<<c.module, "SetUp">>, TRUE)
  ELSE ErrorRecord(<<c.module, c.outcome>>, TRUE)

TimesInGlobal(rec) ==
  Cardinality({k \in 1..Len(global_errors) : global_errors[k] = rec})

\* C12: when every task of a threaded phase has ended, each record given to
\* AddError so far is in the global ledger exactly once and the phase-local
\* list is empty.
C12_MergeKeepsEveryRecordOnce ==
  (mainpc \in {"setup", "run"} /\ AllJoined) =>
    /\ errors = <<>>
    /\ \A c \in ReportingCalls : TimesInGlobal(RecordOfCall(c)) = 1

\* every task of the current phase has been started and has ended
EveryTaskEnded ==
  /\ DOMAIN tpc = 1..NModules
  /\ \A i \in 1..NModules : tpc[i] \in {"done", "crashed", "crashed_set", "escaped"}

NoCriticalInGlobal ==
  \A k \in 1..Len(global_errors) : ~ global_errors[k].critical

\* C13: in a threaded phase the global error check (its printing, the
\* termination, the return to the caller) happens only in a step taken when
\* every task of the phase has ended; the processing phase is entered only
\* by the setup phase's check finding no critical record, with no task left,
\* and a processing task exists only in the processing phase.
C13_CheckAfterEveryTaskEnded ==
  [][/\ (mainpc \in {"setup", "run"} /\
          (printed' # printed \/ exit_status' # exit_status \/ mainpc' # mainpc))
          => EveryTaskEnded
     /\ (mainpc # "run" /\ mainpc' = "run")
          => (mainpc = "setup" /\ EveryTaskEnded /\ NoCriticalInGlobal /\ tpc' = <<>>)
     /\ (\E i \in DOMAIN tpc' : tpc'[i] \in {"wait", "Process", "completed"})
          => mainpc' = "run"]_vars

C13_Witness ==
  /\ mainpc = "finished" /\ NModules >= 2
  /\ \E c \in calls : c.op = "Process"

\* the main modules that want themselves, directly or through other modules
CycleNames ==
  {ModuleName(k) : k \in {j \in 1..NModules : ModuleName(j) \in TransitiveWants(j)}}

\* thread k is of a module on a cycle or of one that transitively wants one
OnOrBehindCycle(k) == TransitiveWants(k) \cap CycleNames # {}

\* the names whose Process can be reached: all wants declared and reachable
RECURSIVE CanComplete(_)
CanComplete(n) ==
  IF n = 0 THEN {}
  ELSE {ModuleName(k) : k \in {j \in 1..NModules :
          Range(Wants(j)) \subseteq (MainNames \cap CanComplete(n - 1))}}

Completable == CanComplete(NModules)

\* the first name in k's wants whose signal is never set; 0 if there is none
FirstObstacle(k) ==
  LET obstacles == {j \in 1..Len(Wants(k)) : Wants(k)[j] \notin Completable}
  IN IF obstacles = {} THEN 0
     ELSE CHOOSE j \in obstacles : \A j2 \in obstacles : j <= j2

\* k's wait loop reaches a declared name whose signal is never set before
\* any undeclared name
BlocksOnDeclared(k) ==
  FirstObstacle(k) # 0 /\ Wants(k)[FirstObstacle(k)] \in MainNames

\* a step of thread i in the processing phase
RunThreadStep(i) ==
  \/ RunWait(i)
  \/ RunProcessBegin(i)
  \/ \E o \in ProcessOutcomes : RunProcessEnd(i, o)
  \/ RunSetEvent(i)
  \/ ThreadCleanUpExtend(i)
  \/ ThreadCleanUpClear(i)
  \/ ThreadCleanUpInput(i)
  \/ ThreadCleanUpOutput(i)

NeverProcesses(k) ==
  /\ ~ ProcessStarted(k)
  /\ ModuleName(k) \in DOMAIN threading_event_per_module
       => ~ threading_event_per_module[ModuleName(k)]

MissingSignalUpTo(k, j) ==
  \E m \in 1..j : Wants(k)[m] \notin DOMAIN threading_event_per_module

C14_WitnessWaitsBehindEndedTask ==
  /\ mainpc = "run" /\ Len(tpc) = NModules
  /\ \E k \in Threads : ModuleName(k) \in CycleNames
  /\ \A k \in Threads : OnOrBehindCycle(k) => tpc[k] = "crashed"
  /\ \E k \in Threads :
       /\ ~ OnOrBehindCycle(k) /\ Range(Wants(k)) \subseteq MainNames
       /\ BlocksOnDeclared(k) /\ tpc[k] = "wait"
       /\ \A j \in Threads : j # k => tpc[j] = "crashed"

\* the signal of name n exists and is set
SignalSet(n) ==
  n \in DOMAIN threading_event_per_module /\ threading_event_per_module[n]

\* a signal is set only after the Process call of its module has ended
SignalsUnsetUntilProcessed ==
  \A n \in DOMAIN threading_event_per_module :
    threading_event_per_module[n] =>
      /\ mainpc \in {"run", "finished", "exited"}
      /\ \E c \in calls : c.module = n /\ c.op = "Process"
      /\ mainpc = "run" =>
           \E i \in Threads : ModuleName(i) = n /\ ProcessFinished(i) /\ tpc[i] # "completed"

\* what one step may do to the signals
SignalStep ==
  /\ \A n \in DOMAIN threading_event_per_module :
       /\ n \in DOMAIN threading_event_per_module'
       /\ threading_event_per_module[n] => threading_event_per_module'[n]
       /\ (~ threading_event_per_module[n] /\ threading_event_per_module'[n]) =>
            \E i \in Threads :
              ModuleName(i) = n /\ tpc[i] = "completed" /\ tpc'[i] = "cleanup_extend"
  /\ mainpc = "run" =>
       DOMAIN threading_event_per_module' = DOMAIN threading_event_per_module
  /\ (mainpc = "setup" /\ mainpc' = "run") =>
       /\ DOMAIN threading_event_per_module' = MainNames
       /\ \A n \in MainNames : ~ threading_event_per_module'[n]

\* C16: a module's signal is unset through the setup phase and until its own
\* Process call has ended, is set only by the step of that module's
\* processing task that follows its Process, is never unset or removed once
\* it exists, and when the processing phase begins there is one signal for
\* each declared main module, all unset.
C16_SignalsLatched ==
  /\ []SignalsUnsetUntilProcessed
  /\ [][SignalStep]_vars

\* C17: for a module that wants one module whose Process has returned, in
\* the step in which its own Process begins the state's input holds what
\* the wanted module's Process placed in output, and output is empty.
C17_OutputBecomesInput ==
  [][\A i \in DOMAIN tpc \cap DOMAIN tpc' :
       (/\ mainpc = "run" /\ tpc[i] = "wait" /\ tpc'[i] = "Process"
        /\ Len(Wants(i)) = 1
        /\ Call(Wants(i)[1], "Process", "ok") \in calls)
       => (input' = <<Wants(i)[1]>> /\ output' = <<>>)]_vars

\* neither of the two modules wants the other, directly or transitively
Independent(i, j) ==
  /\ i # j
  /\ ModuleName(i) \notin TransitiveWants(j)
  /\ ModuleName(j) \notin TransitiveWants(i)

\* C20: a processing task that has not begun Process and whose wants are
\* all signalled can take its next step, whatever the tasks of the modules
\* it does not want are doing; with an empty wants list that step is the
\* beginning of its Process.
C20_IndependentModulesUnordered ==
  mainpc = "run" =>
    \A j \in Threads :
      tpc[j] = "wait" =>
        /\ Wants(j) = <<>> => ENABLED RunProcessBegin(j)
        /\ (\A k \in 1..Len(Wants(j)) : SignalSet(Wants(j)[k]))
             => ENABLED (RunWait(j) \/ RunProcessBegin(j))

\* the Process calls of two independent modules overlap
C20_Witness ==
  /\ mainpc = "run"
  /\ \E i, j \in Threads :
       Independent(i, j) /\ tpc[i] = "Process" /\ tpc[j] = "Process"

\* of two independent modules, the first declared has ended its Process
\* before the Process of the second has begun
C20_WitnessFirstThenSecond ==
  /\ mainpc = "run"
  /\ \E i, j \in Threads :
       Independent(i, j) /\ i < j /\ ProcessFinished(i) /\ tpc[j] = "wait"

\* of two independent modules, the second declared has ended its Process
\* before the Process of the first has begun
C20_WitnessSecondThenFirst ==
  /\ mainpc = "run"
  /\ \E i, j \in Threads :
       Independent(i, j) /\ i < j /\ ProcessFinished(j) /\ tpc[i] = "wait"

\* thread i wants a name that no main module of the recipe declares
WantsUndeclared(i) == Range(Wants(i)) \ MainNames # {}

-----------------------------------------------------------------------------
(* One run of a well-formed recipe under fair scheduling (SpecFair): the   *)
(* main thread and every started thread keep being scheduled.              *)

\* the wants of r name only declared main modules and have an order in
\* which every module comes after the modules it wants
WellFormedRecipe(r) ==
  LET n == Len(r.modules)
  IN \E rank \in [1..n -> 1..n] :
       \A k \in 1..n : \A w \in Range(r.modules[k].wants) :
         \E j \in 1..n : r.modules[j].name = w /\ rank[j] < rank[k]

\* the well-formed recipes of one or two modules, and the chain of three
FairRecipes ==
  {r \in PipelineRecipes :
     /\ WellFormedRecipe(r)
     /\ Len(r.modules) > 2 => \A k \in 2..Len(r.modules) : Len(r.modules[k].wants) = 1}

MaxTasks ==
  CHOOSE n \in {Len(r.modules) : r \in FairRecipes} :
    \A r \in FairRecipes : Len(r.modules) <= n

\* a step of thread i in either threaded phase
ThreadStep(i) ==
  \/ \E o \in SetupOutcomes : SetupCall(i, o)
  \/ SetupCreateEvent(i)
  \/ RunThreadStep(i)

NextFair ==
  \/ \E r \in FairRecipes : LoadRecipe(r)
  \/ PreflightsReturn
  \/ StartThread
  \/ JoinAndCheck
  \/ \E i \in Threads, o \in SetupOutcomes : SetupCall(i, o)
  \/ \E i \in Threads : SetupCreateEvent(i)
  \/ \E i \in Threads : RunWait(i)
  \/ \E i \in Threads : RunProcessBegin(i)
  \/ \E i \in Threads, o \in ProcessOutcomes : RunProcessEnd(i, o)
  \/ \E i \in Threads : RunSetEvent(i)
  \/ \E i \in Threads : ThreadCleanUpExtend(i)
  \/ \E i \in Threads : ThreadCleanUpClear(i)
  \/ \E i \in Threads : ThreadCleanUpInput(i)
  \/ \E i \in Threads : ThreadCleanUpOutput(i)

Fairness ==
  /\ WF_vars(\E r \in FairRecipes : LoadRecipe(r))
  /\ WF_vars(PreflightsReturn)
  /\ WF_vars(StartThread)
  /\ WF_vars(JoinAndCheck)
  /\ \A i \in 1..MaxTasks : WF_vars(ThreadStep(i))

SpecFair == Init /\ [][NextFair]_vars /\ Fairness

\* the processing phase has joined and run its check, after every main
\* module's Process was invoked and every signal was set
ProcessingComplete ==
  /\ mainpc \in {"finished", "exited"}
  /\ \A k \in 1..NModules :
       /\ \E c \in calls : c.module = ModuleName(k) /\ c.op = "Process"
       /\ ModuleName(k) \in DOMAIN threading_event_per_module
       /\ threading_event_per_module[ModuleName(k)]

\* every name a processing task waits on has a signal
WaitedSignalsExist ==
  mainpc = "run" =>
    \A k \in 1..NModules : Range(Wants(k)) \subseteq DOMAIN threading_event_per_module

\* every name a processing task waits on has a signal, unless a SetUp
\* raised an exception that its except clause does not catch
WaitedSignalsExistUnlessEscaped ==
  (\E c \in EscapedCalls : c.op = "SetUp") \/ WaitedSignalsExist

\* a task that has invoked Process does not invoke it again
ProcessInvokedAtMostOnce ==
  \A i \in DOMAIN tpc \cap DOMAIN tpc' :
    (mainpc' = "run" /\ ProcessStarted(i) /\ tpc[i] # "Process") => tpc'[i] # "Process"

-----------------------------------------------------------------------------
(* LoadRecipe on recipes that repeat names and name unknown modules,       *)
(* followed by the preflights (SpecLoad).                                  *)

\* sequences over S of length lo to hi
SeqsOf(S, lo, hi) == UNION {[1..k -> S] : k \in lo..hi}

\* recipes whose two lists draw their names freely, "X" being a name the
\* registry does not know
LoadInputs ==
  {[modules |-> [k \in 1..Len(m) |-> ModuleDefinition(m[k], <<>>)],
    preflights |-> [k \in 1..Len(q) |-> [name |-> q[k]]]] :
     m \in SeqsOf({"A", "B", "X"}, 1, MaxDeclared),
     q \in SeqsOf({"A", "P", "X"}, 0, MaxDeclared)}

NextLoad ==
  \/ \E r \in LoadInputs : LoadRecipe(r)
  \/ \E o \in PreflightOutcomes : PreflightSetUp(o)
  \/ \E o \in PreflightOutcomes : PreflightProcess(o)
  \/ PreflightCheck
  \/ PreflightsReturn

SpecLoad == Init /\ [][NextLoad]_vars

\* LoadRecipe raised RecipeParseError (a raise out of a preflight leaves
\* RunPreflights from its finally clause)
LoadFailed == mainpc = "raised" /\ pfpc # "finally_raised"

UnknownDeclared ==
  \E k \in 1..Len(CombinedNames(recipe)) : CombinedNames(recipe)[k] \notin Registry

\* the last position of the combined list that declares name
LastDeclaration(name) ==
  CHOOSE k \in 1..Len(CombinedNames(recipe)) :
    /\ CombinedNames(recipe)[k] = name
    /\ \A j \in 1..Len(CombinedNames(recipe)) :
         CombinedNames(recipe)[j] = name => j <= k

\* C11: LoadRecipe raises exactly when a name of the recipe's modules or
\* preflights is not in the registry, and then no SetUp or Process is ever
\* called; when it returns, the pool has an entry for every declared name
\* and no other, holding the instance made for the name's last declaration.
C11_LoadRecipeUnknownModule ==
  mainpc # "init" =>
    /\ LoadFailed <=> UnknownDeclared
    /\ UnknownDeclared => (calls = {} /\ tpc = <<>> /\ mainpc = "raised")
    /\ ~ UnknownDeclared =>
         /\ DOMAIN module_pool = Range(CombinedNames(recipe))
         /\ \A n \in DOMAIN module_pool : module_pool[n] = LastDeclaration(n)

\* a recipe that declares A among the modules and again among the
\* preflights was loaded, and the preflight A has been called
C11_Witness ==
  /\ mainpc = "setup" /\ ~ UnknownDeclared
  /\ \E n \in DOMAIN module_pool :
       /\ module_pool[n] > 1
       /\ \E k \in 1..(module_pool[n] - 1) : CombinedNames(recipe)[k] = n
  /\ calls # {}

\* LoadRecipe raised at an unknown name declared after a known one
C11_WitnessUnknown ==
  LoadFailed /\ module_pool # <<>>

\* the step runs the error check of RunPreflights
PreflightCheckRuns ==
  /\ pfpc \in {"finally", "finally_raised"}
  /\ printed' = CheckErrors(errors, global_errors, TRUE).printed

\* what one step of RunPreflights may do
PreflightStep ==
  mainpc = "preflights" =>
    LET n == Len(recipe.preflights)
    IN /\ pfi' \in {pfi, pfi + 1}
       /\ pfi' = pfi + 1 =>
            (PreflightCheckRuns /\ pfpc = "finally" /\ pfpc' = "SetUp")
       /\ (pfpc = "SetUp" /\ pfpc' # "SetUp") =>
            /\ pfi <= n /\ pfpc' \in {"Process", "finally_raised"}
            /\ Call(recipe.preflights[pfi].name, "SetUp", "raise") \in calls'
                 <=> pfpc' = "finally_raised"
       /\ (pfpc = "Process" /\ pfpc' # "Process") =>
            /\ pfi <= n /\ pfpc' \in {"finally", "finally_raised"}
            /\ \E o \in PreflightOutcomes :
                 Call(recipe.preflights[pfi].name, "Process", o) \in calls'
       /\ calls' # calls =>
            /\ pfi <= n /\ pfpc \in {"SetUp", "Process"} /\ pfpc' # pfpc
            /\ \E o \in PreflightOutcomes :
                 calls' = calls \cup {Call(recipe.preflights[pfi].name, pfpc, o)}
       /\ pfpc = "finally_raised" => mainpc' \in {"raised", "exited"}
       /\ mainpc' # "preflights" =>
            \/ mainpc' = "setup" /\ pfi > n
            \/ mainpc' \in {"raised", "exited"} /\ PreflightCheckRuns

\* C19: RunPreflights takes the preflights in declared order, one at a
\* time: SetUp, then Process unless SetUp raised, then the error check,
\* also when one of the two raised, and then the exception leaves
\* RunPreflights; it moves to the next preflight only in the step in which
\* the check returns.
C19_PreflightsSequential == [][PreflightStep]_vars

\* the first preflight passed its check, the Process of the second raised
\* and the exception left RunPreflights after the check
C19_Witness ==
  /\ mainpc = "raised" /\ pfpc = "finally_raised" /\ pfi > 1
  /\ ~ UnknownDeclared
  /\ Call(recipe.preflights[pfi].name, "Process", "raise") \in calls
  /\ Call(recipe.preflights[pfi].name, "SetUp", "raise") \notin calls

-----------------------------------------------------------------------------
(* The error ledger called from one thread.                                *)

Messages == {"e1", "e2"}
OutputItems == {"o1", "o2"}

InitLedger == Constructed /\ mainpc = "ledger"

Ledgers == [errors |-> errors, global_errors |-> global_errors,
            input |-> input, output |-> output]

\* AddError(error, critical)
LedgerAddError(error, critical) ==
  /\ mainpc = "ledger"
  /\ Len(errors) + Len(global_errors) < MaxLedger
  /\ errors' = AddError(errors, error, critical)
  /\ last' = [op |-> "AddError"]
  /\ UNCHANGED <<global_errors, input, output, input_is_output>>
  /\ UNCHANGED <<runvars, storevars, printed, exit_status, log>>

\* a module puts an item in output: self.state.output.append(item)
LedgerWriteOutput(item) ==
  /\ mainpc = "ledger"
  /\ Len(output) < MaxOutput
  /\ output' = Append(output, item)
  /\ input' = InputAfterAppend(input, output, input_is_output, item)
  /\ last' = [op |-> "WriteOutput"]
  /\ UNCHANGED <<errors, global_errors, input_is_output>>
  /\ UNCHANGED <<runvars, storevars, printed, exit_status, log>>

\* CleanUp(); the observation keeps the state the call started from, and
\* whether the call before it was CleanUp too
LedgerCleanUp ==
  /\ mainpc = "ledger"
  /\ LET st == CleanUp(Ledgers)
     IN /\ errors' = st.errors
        /\ global_errors' = st.global_errors
        /\ input' = st.input
        /\ output' = st.output
        /\ input_is_output' = FALSE
  /\ last' = [op |-> "CleanUp", repeated |-> (last.op = "CleanUp"),
              before |-> Ledgers]
  /\ UNCHANGED <<runvars, storevars, printed, exit_status, log>>

\* CheckErrors(is_global); sys.exit(1) ends the process
LedgerCheckErrors(is_global) ==
  /\ mainpc = "ledger"
  /\ LET res == CheckErrors(errors, global_errors, is_global)
     IN /\ printed' = res.printed
        /\ exit_status' = IF res.exit THEN 1 ELSE exit_status
        /\ mainpc' = IF res.exit THEN "exited" ELSE mainpc
  /\ last' = [op |-> "CheckErrors", is_global |-> is_global, before |-> Ledgers]
  /\ UNCHANGED <<recipe, module_pool, threading_event_per_module, pfi, pfpc, tpc, twi, calls>>
  /\ UNCHANGED <<ledgervars, storevars, log>>

NextLedger ==
  \/ \E e \in Messages, c \in BOOLEAN : LedgerAddError(e, c)
  \/ \E x \in OutputItems : LedgerWriteOutput(x)
  \/ LedgerCleanUp
  \/ \E g \in BOOLEAN : LedgerCheckErrors(g)

SpecLedger == InitLedger /\ [][NextLedger]_vars

-----------------------------------------------------------------------------
(* Properties of the error ledger (SpecLedger).                            *)

\* the ledger the last CheckErrors call looked at, as it was before the call
CheckedLedger ==
  IF last.is_global THEN last.before.global_errors ELSE last.before.errors

CriticalAt(ledger) == {k \in 1..Len(ledger) : ledger[k].critical}

FirstCriticalAt(ledger) ==
  CHOOSE k \in CriticalAt(ledger) : \A j \in CriticalAt(ledger) : k <= j

\* C6: CheckErrors exits with status 1 exactly when the ledger it checks
\* holds a critical record, having printed the records up to and including
\* the first critical one and none after it; with no critical record it
\* prints the whole ledger and returns, and the process goes on. Either way
\* it leaves both ledgers as they were.
C6_CheckErrorsExitsIffCritical ==
  last.op = "CheckErrors" =>
    /\ (exit_status = 1) <=> (CriticalAt(CheckedLedger) # {})
    /\ (mainpc = "exited") <=> (CriticalAt(CheckedLedger) # {})
    /\ CriticalAt(CheckedLedger) # {} =>
         printed = SubSeq(CheckedLedger, 1, FirstCriticalAt(CheckedLedger))
    /\ CriticalAt(CheckedLedger) = {} => printed = CheckedLedger
    /\ errors = last.before.errors
    /\ global_errors = last.before.global_errors

\* a check of the global ledger exited at a critical record that has a
\* non-critical record before it and another record after it
C6_Witness ==
  /\ last.op = "CheckErrors" /\ last.is_global /\ exit_status = 1
  /\ Len(printed) = 2 /\ Len(global_errors) = 3

\* C7 as stated: when a check exits, every record of the checked ledger has
\* been printed.
C7_AllPrintedBeforeExit ==
  (last.op = "CheckErrors" /\ exit_status = 1) => printed = CheckedLedger

\* C7, amended: when a check exits, the records of the checked ledger up to
\* and including its first critical record have been printed, in ledger
\* order, and no record placed after that one has been printed.
C7_PrintedUpToFirstCritical ==
  (last.op = "CheckErrors" /\ exit_status = 1) =>
    \E k \in 1..Len(CheckedLedger) :
      /\ CheckedLedger[k].critical
      /\ \A j \in 1..(k - 1) : ~ CheckedLedger[j].critical
      /\ Len(printed) = k
      /\ \A j \in 1..k : printed[j] = CheckedLedger[j]

\* a check exited and left a record of its ledger unprinted
C7_Witness ==
  /\ last.op = "CheckErrors" /\ exit_status = 1
  /\ Len(printed) < Len(CheckedLedger)

\* C8 as stated: a CleanUp that directly follows a CleanUp leaves the global
\* ledger, input and output as the first call left them.
C8_CleanUpIdempotent ==
  (last.op = "CleanUp" /\ last.repeated) =>
    /\ global_errors = last.before.global_errors
    /\ input = last.before.input
    /\ output = last.before.output

\* C8, amended: a CleanUp that directly follows a CleanUp leaves the global
\* ledger, the local errors and output as the first call left them (output
\* and the local errors empty), and replaces input by the empty output: what
\* the first call moved into input is dropped.
C8_SecondCleanUpEmptiesInput ==
  (last.op = "CleanUp" /\ last.repeated) =>
    /\ global_errors = last.before.global_errors
    /\ errors = last.before.errors /\ errors = <<>>
    /\ output = last.before.output /\ output = <<>>
    /\ input = <<>>

\* a second CleanUp in a row, after a first one that moved errors to the
\* global ledger and a non-empty output to input
C8_Witness ==
  /\ last.op = "CleanUp" /\ last.repeated
  /\ last.before.input # <<>> /\ global_errors # <<>>

-----------------------------------------------------------------------------
(* The container store and the streaming registry called from one thread.  *)

InitStore == Constructed /\ mainpc = "store"

\* StoreContainer(container)
StoreStore(container) ==
  /\ mainpc = "store"
  /\ Len(log) < MaxLog
  /\ store' = StoreContainer(store, container)
  /\ log' = Append(log, [op |-> "StoreContainer", container |-> container])
  /\ last' = [op |-> "StoreContainer"]
  /\ UNCHANGED <<runvars, ledgervars, streaming_callbacks, store_lock, printed, exit_status>>

\* GetContainers(container_class)
StoreGet(container_class) ==
  /\ mainpc = "store"
  /\ LET res == GetContainers(store, container_class)
     IN /\ store' = res.store
        /\ last' = [op |-> "GetContainers", container_class |-> container_class,
                    result |-> res.result, before |-> store]
  /\ UNCHANGED <<runvars, ledgervars, streaming_callbacks, store_lock, printed, exit_status, log>>

\* RegisterStreamingCallback(target, container_type)
StoreRegister(target, container_type) ==
  /\ mainpc = "store"
  /\ Len(log) < MaxLog
  /\ streaming_callbacks' =
       RegisterStreamingCallback(streaming_callbacks, target, container_type)
  /\ log' = Append(log, [op |-> "RegisterStreamingCallback", target |-> target,
                         container_type |-> container_type])
  /\ last' = [op |-> "RegisterStreamingCallback"]
  /\ UNCHANGED <<runvars, ledgervars, store, store_lock, printed, exit_status>>

\* StreamContainer(container); the observation keeps the calls it made
StoreStream(container) ==
  /\ mainpc = "store"
  /\ last' = [op |-> "StreamContainer", container |-> container,
              invoked |-> StreamContainer(streaming_callbacks, container)]
  /\ UNCHANGED <<runvars, ledgervars, storevars, printed, exit_status, log>>

NextStore ==
  \/ \E c \in Containers : StoreStore(c)
  \/ \E t \in ContainerClasses : StoreGet(t)
  \/ \E f \in Targets, t \in ContainerClasses : StoreRegister(f, t)
  \/ \E c \in Containers : StoreStream(c)

SpecStore == InitStore /\ [][NextStore]_vars

-----------------------------------------------------------------------------
(* Properties of the store and the streaming registry (SpecStore).         *)

IsStoreOf(T, e) == e.op = "StoreContainer" /\ e.container.cls = T

\* the containers of class T passed to StoreContainer so far, in call order
StoredOf(T) ==
  LET Test(e) == IsStoreOf(T, e)
      calls_T == SelectSeq(log, Test)
  IN [k \in 1..Len(calls_T) |-> calls_T[k].container]

\* the targets registered for class T so far, in call order
RegisteredFor(T) ==
  LET Test(e) == e.op = "RegisterStreamingCallback" /\ e.container_type = T
      calls_T == SelectSeq(log, Test)
  IN [k \in 1..Len(calls_T) |-> calls_T[k].target]

\* C9: GetContainers for a class returns the containers of that class that
\* were passed to StoreContainer, once per call and in call order, and none
\* of another class; for a class never stored it returns the empty sequence
\* and the store has no entry for it. The call leaves the store as it was.
C9_ContainerRoundTrip ==
  /\ \A T \in ContainerClasses :
       DictGet(store, CONTAINER_TYPE(T)) = StoredOf(T)
  /\ last.op = "GetContainers" =>
       /\ last.result = StoredOf(last.container_class)
       /\ \A k \in 1..Len(last.result) :
            last.result[k].cls = last.container_class
       /\ StoredOf(last.container_class) = <<>> =>
            /\ last.result = <<>>
            /\ CONTAINER_TYPE(last.container_class) \notin DOMAIN store
       /\ store = last.before

\* GetContainers returned two containers while one of the other class is
\* stored too
C9_Witness ==
  /\ last.op = "GetContainers" /\ Len(last.result) = 2
  /\ Len(log) = 3 /\ \A k \in 1..3 : log[k].op = "StoreContainer"

\* GetContainers was called for a class never stored
C9_WitnessUnused ==
  /\ last.op = "GetContainers" /\ StoredOf(last.container_class) = <<>>
  /\ store # <<>>

\* C10: StreamContainer calls the targets registered for the class of the
\* container, once per registration and in registration order, each with
\* that container, and calls no other target.
C10_StreamInvokesRegistered ==
  last.op = "StreamContainer" =>
    LET regs == RegisteredFor(last.container.cls)
    IN last.invoked =
         [k \in 1..Len(regs) |-> [target |-> regs[k], container |-> last.container]]

\* a container was streamed to a target registered twice for its class,
\* while a target is registered for the other class
C10_Witness ==
  /\ last.op = "StreamContainer" /\ Len(last.invoked) = 2
  /\ last.invoked[1].target = last.invoked[2].target
  /\ \E T \in ContainerClasses :
       T # last.container.cls /\ RegisteredFor(T) # <<>>

-----------------------------------------------------------------------------
(* StoreContainer and GetContainers called by concurrent tasks (SpecTasks). *)
(* tpc holds the position of each task: "idle" between calls, "acquire"    *)
(* at the with statement, "inside" holding the lock, "release" leaving the *)
(* with block.  log holds the calls in the order they were made.           *)

InitTasks == Constructed /\ mainpc = "tasks"

\* a task that will call the store is started
TaskStart ==
  /\ mainpc = "tasks" /\ Len(tpc) < StoreTasks
  /\ tpc' = Append(tpc, "idle")
  /\ UNCHANGED <<recipe, module_pool, threading_event_per_module, mainpc, pfi, pfpc, twi, calls>>
  /\ UNCHANGED <<ledgervars, storevars, printed, exit_status, log, last>>

\* the call task t is in: its last entry in log
CallsOf(t) == LET Test(e) == e.task = t IN SelectSeq(log, Test)

CurrentCall(t) == CallsOf(t)[Len(CallsOf(t))]

\* task t calls StoreContainer(container) or GetContainers(container_class)
TaskCall(t, entry) ==
  /\ mainpc = "tasks" /\ t \in Threads /\ tpc[t] = "idle"
  /\ Len(log) < MaxTaskCalls
  /\ log' = Append(log, entry)
  /\ tpc' = [tpc EXCEPT ![t] = "acquire"]
  /\ UNCHANGED <<recipe, module_pool, threading_event_per_module, mainpc, pfi, pfpc, twi, calls>>
  /\ UNCHANGED <<ledgervars, storevars, printed, exit_status, last>>

TaskAcquire_NoLock(t) ==
  /\ mainpc = "tasks" /\ t \in Threads /\ tpc[t] = "acquire"
  /\ store_lock' = t
  /\ tpc' = [tpc EXCEPT ![t] = "inside"]
  /\ UNCHANGED <<recipe, module_pool, threading_event_per_module, mainpc, pfi, pfpc, twi, calls>>
  /\ UNCHANGED <<ledgervars, store, streaming_callbacks, printed, exit_status, log, last>>

\* with self._store_lock: the lock is taken when it is free
TaskAcquire(t) ==
  /\ mainpc = "tasks" /\ t \in Threads /\ tpc[t] = "acquire"
  /\ store_lock = 0
  /\ store_lock' = t
  /\ tpc' = [tpc EXCEPT ![t] = "inside"]
  /\ UNCHANGED <<recipe, module_pool, threading_event_per_module, mainpc, pfi, pfpc, twi, calls>>
  /\ UNCHANGED <<ledgervars, store, streaming_callbacks, printed, exit_status, log, last>>

\* the body of the with block of StoreContainer or of GetContainers
TaskOperate(t) ==
  /\ mainpc = "tasks" /\ t \in Threads /\ tpc[t] = "inside"
  /\ LET entry == CurrentCall(t)
     IN IF entry.op = "StoreContainer"
        THEN /\ store' = StoreContainer(store, entry.container)
             /\ last' = [op |-> "StoreContainer", task |-> t]
        ELSE LET res == GetContainers(store, entry.container_class)
             IN /\ store' = res.store
                /\ last' = [op |-> "GetContainers", task |-> t,
                            container_class |-> entry.container_class,
                            result |-> res.result, before |-> store]
  /\ tpc' = [tpc EXCEPT ![t] = "release"]
  /\ UNCHANGED <<recipe, module_pool, threading_event_per_module, mainpc, pfi, pfpc, twi, calls>>
  /\ UNCHANGED <<ledgervars, streaming_callbacks, store_lock, printed, exit_status, log>>

\* the with block is left: the lock is released and the call returns
TaskRelease(t) ==
  /\ mainpc = "tasks" /\ t \in Threads /\ tpc[t] = "release"
  /\ store_lock' = 0
  /\ tpc' = [tpc EXCEPT ![t] = "idle"]
  /\ UNCHANGED <<recipe, module_pool, threading_event_per_module, mainpc, pfi, pfpc, twi, calls>>
  /\ UNCHANGED <<ledgervars, store, streaming_callbacks, printed, exit_status, log, last>>

NextTasks ==
  \/ TaskStart
  \/ \E t \in Threads, c \in Containers :
       TaskCall(t, [op |-> "StoreContainer", container |-> c, task |-> t])
  \/ \E t \in Threads, T \in ContainerClasses :
       TaskCall(t, [op |-> "GetContainers", container_class |-> T, task |-> t])
  \/ \E t \in Threads : TaskAcquire(t)
  \/ \E t \in Threads : TaskOperate(t)
  \/ \E t \in Threads : TaskRelease(t)

SpecTasks == InitTasks /\ [][NextTasks]_vars

-----------------------------------------------------------------------------
(* Properties of the store under concurrent tasks (SpecTasks).             *)

\* the containers of class T that task t has stored: its StoreContainer
\* calls whose with block has run, in the order t made them
StoredBy(t, T) ==
  LET mine == CallsOf(t)
      done == IF tpc[t] \in {"acquire", "inside"}
              THEN SubSeq(mine, 1, Len(mine) - 1) ELSE mine
      Test(e) == e.op = "StoreContainer" /\ e.container.cls = T
      calls_T == SelectSeq(done, Test)
  IN [k \in 1..Len(calls_T) |-> calls_T[k].container]

\* s is an interleaving of the sequences parts[t]: every element of every
\* part once, each part in its own order
RECURSIVE IsInterleaving(_, _)
IsInterleaving(s, parts) ==
  IF s = <<>> THEN \A t \in DOMAIN parts : parts[t] = <<>>
  ELSE \E t \in DOMAIN parts :
         /\ parts[t] # <<>> /\ Head(parts[t]) = Head(s)
         /\ IsInterleaving(Tail(s), [parts EXCEPT ![t] = Tail(parts[t])])

InsideStore == {t \in Threads : tpc[t] \in {"inside", "release"}}

\* C18: at most one task is inside a store operation, and it holds the
\* lock; the list of each type holds the containers the tasks have stored
\* for that type, each once, those of one task in the order that task
\* stored them; so it does when all tasks have finished their calls.
C18_StoreCallsExclusive ==
  /\ Cardinality(InsideStore) <= 1
  /\ \A t \in InsideStore : store_lock = t
  /\ InsideStore = {} => store_lock = 0
  /\ \A T \in ContainerClasses :
       IsInterleaving(DictGet(store, CONTAINER_TYPE(T)),
                      [t \in Threads |-> StoredBy(t, T)])

\* all calls have returned; two tasks stored containers of one class and
\* the store holds them in another order than the calls were made
C18_Witness ==
  /\ Len(tpc) = StoreTasks /\ \A t \in Threads : tpc[t] = "idle"
  /\ Len(log) = MaxTaskCalls
  /\ \E T \in ContainerClasses :
       /\ DictGet(store, CONTAINER_TYPE(T)) # StoredOf(T)
       /\ Len(DictGet(store, CONTAINER_TYPE(T))) = MaxTaskCalls

====
